---- MODULE Spec2Model ----
(***************************************************************************)
(* Verification model of the LoRA training / deployment coordination code  *)
(* of scripts/python/lora_training.                                        *)
(*                                                                         *)
(* Text is modelled as a sequence of characters (one-character strings).   *)
(* The two-character tokens "e^" and "E^" stand for the accented letters   *)
(* e-acute and E-acute.                                                    *)
(*                                                                         *)
(* Spec         one run of TrainingOrchestrator.execute_training_pipeline  *)
(* AdapterSpec  the adapter registry and its enable / disable operations   *)
(***************************************************************************)
EXTENDS Integers, Sequences, FiniteSets, TLC

VARIABLES
    pc,          \* position of the pipeline run
    config,      \* the configuration object handed to the run
    channel,     \* lines written to the progress channel, oldest first
    started,     \* the phases this run has started, in order
    completed,   \* the phases this run has completed successfully, in order
    result,      \* what execute_training_pipeline returned (Pending until it returns)
    failKind,    \* "none", "returned" (a phase returned a failure) or "raised"
    cleanups,    \* the MemoryMonitor.cleanup_memory calls of this run, as a set
    trainData,   \* raw examples returned by load_data
    formatted,   \* examples returned by format_data
    hfName,      \* HuggingFace identifier the model mapper returned
    tconf,       \* the TrainingConfig handed to the trainer
    step,        \* global step of the optimisation loop
    adapterPath, \* where the trainer saved the adapter
    finalModel,  \* what _merge_and_deploy_if_unsloth returned
    external,    \* the external commands and library runs of this run, in order
    registry,    \* registry directory: file key -> record
    weights,     \* persistent weight directories, by sanitized id
    served,      \* models present in the serving runtime
    op,          \* the last registry operation and what it did
    activated,   \* per registry key, the served model the last successful enable activated
    deploy,      \* one call of training_modules.deployment.deploy_to_ollama
    plan,        \* one call of training_modules.step_calculator.calculate_optimal_steps
    call         \* one call of a pure helper: the function, its arguments, its value

vars == <<pc, config, channel, started, completed, result, failKind, cleanups, trainData,
          formatted, hfName, tconf, step, adapterPath, finalModel, external,
          registry, weights, served, op, activated, deploy, plan, call>>

pipeVars == <<pc, config, channel, started, completed, result, failKind, cleanups, trainData,
              formatted, hfName, tconf, step, adapterPath, finalModel, external>>

storeVars == <<registry, weights, served, op, activated>>

toolVars == <<deploy, plan, call>>

----------------------------------------------------------------------------
(* Bounds of the model *)

MaxExamples == 2

----------------------------------------------------------------------------
(* Text helpers *)

Range(s) == {s[i] : i \in 1..Len(s)}

StartsWith(s, p) == Len(p) <= Len(s) /\ SubSeq(s, 1, Len(p)) = p

\* Python's "p in s" for strings
Contains(s, p) ==
    \E i \in 0..(Len(s) - Len(p)) : SubSeq(s, i + 1, i + Len(p)) = p

\* the part of s before the first occurrence of character c (all of s if none)
BeforeFirst(s, c) ==
    IF c \in Range(s)
    THEN SubSeq(s, 1, (CHOOSE i \in 1..Len(s) :
                          s[i] = c /\ \A j \in 1..(i - 1) : s[j] # c) - 1)
    ELSE s

\* str.replace(old, new) for a single character old and a text new
RECURSIVE ReplaceChar(_, _, _)
ReplaceChar(s, old, new) ==
    IF s = <<>> THEN <<>>
    ELSE (IF Head(s) = old THEN new ELSE <<Head(s)>>) \o ReplaceChar(Tail(s), old, new)

UpperChars == <<"A", "B", "C", "D", "E", "F", "G", "H", "I", "J", "K", "L", "M",
                "N", "O", "P", "Q", "R", "S", "T", "U", "V", "W", "X", "Y", "Z", "E^">>
LowerChars == <<"a", "b", "c", "d", "e", "f", "g", "h", "i", "j", "k", "l", "m",
                "n", "o", "p", "q", "r", "s", "t", "u", "v", "w", "x", "y", "z", "e^">>
Digits == {"0", "1", "2", "3", "4", "5", "6", "7", "8", "9"}

LowerMap ==
    [c \in Range(UpperChars) |->
        LowerChars[CHOOSE i \in 1..Len(UpperChars) : UpperChars[i] = c]]

LowerChar(c) == IF c \in DOMAIN LowerMap THEN LowerMap[c] ELSE c

\* str.lower()
Lower(s) == [i \in 1..Len(s) |-> LowerChar(s[i])]

----------------------------------------------------------------------------
(* utils.sanitize_model_name *)

unnamed == <<"u", "n", "n", "a", "m", "e", "d">>
digit_prefix == <<"0", "-">>

model_prefix == <<"m", "o", "d", "e", "l", "-">>

\* unicodedata.normalize('NFD', ..) followed by dropping the combining marks
StripAccent(c) == IF c = "e^" THEN "e" ELSE c

AnyChar == Range(LowerChars) \cup Range(UpperChars) \cup Digits \cup {"_", "-", " "}

AllowedChars == (Range(LowerChars) \ {"e^"}) \cup Digits \cup {"_", "-"}

\* re.sub(r'[^a-z0-9_-]', '-', ..)
ReplaceSpecial(s) == [i \in 1..Len(s) |-> IF s[i] \in AllowedChars THEN s[i] ELSE "-"]

\* re.sub(r'-{2,}', '-', ..)
RECURSIVE CollapseHyphens(_)
CollapseHyphens(s) ==
    IF Len(s) < 2 THEN s
    ELSE IF s[1] = "-" /\ s[2] = "-" THEN CollapseHyphens(Tail(s))
         ELSE <<s[1]>> \o CollapseHyphens(Tail(s))

RECURSIVE StripLeft(_)
StripLeft(s) ==
    IF s # <<>> /\ Head(s) \in {"-", "_"} THEN StripLeft(Tail(s)) ELSE s

RECURSIVE StripRight(_)
StripRight(s) ==
    IF s # <<>> /\ s[Len(s)] \in {"-", "_"}
    THEN StripRight(SubSeq(s, 1, Len(s) - 1)) ELSE s

\* str.strip('-_')
StripSeparators(s) == StripRight(StripLeft(s))

sanitize_model_name(name) ==
    IF name = <<>> THEN unnamed
    ELSE LET lowered  == Lower(name)
             plain    == [i \in 1..Len(lowered) |-> StripAccent(lowered[i])]
             replaced == ReplaceSpecial(plain)
             collapsed == CollapseHyphens(replaced)
             stripped == StripSeparators(collapsed)
             nonempty == IF stripped = <<>> THEN unnamed ELSE stripped
         IN  IF nonempty[1] \in Digits THEN model_prefix \o nonempty ELSE nonempty

with_separator == <<"-", "w", "i", "t", "h", "-">>

create_sanitized_model_name(base_model, adapter_id) ==
    sanitize_model_name(ReplaceChar(base_model, ":", <<"_">>))
        \o with_separator \o sanitize_model_name(adapter_id)

----------------------------------------------------------------------------
(* services/model_mapper.ModelMapper *)

gemma3n_latest == <<"g", "e", "m", "m", "a", "3", "n", ":", "l", "a", "t", "e", "s", "t">>
gemma3_latest == <<"g", "e", "m", "m", "a", "3", ":", "l", "a", "t", "e", "s", "t">>
hf_gemma3n == <<"m", "u", "r", "a", "n", "A", "I", "/", "g", "e", "m", "m", "a", "-",
                "3", "n", "-", "E", "4", "B", "-", "i", "t", "-", "G", "G", "U", "F">>
hf_gemma3 == <<"u", "n", "s", "l", "o", "t", "h", "/", "g", "e", "m", "m", "a", "-",
               "3", "-", "4", "b", "-", "i", "t">>
unsloth_prefix == <<"u", "n", "s", "l", "o", "t", "h", "/">>

\* self.model_mapping, in insertion order
model_mapping == << <<gemma3n_latest, hf_gemma3n>>, <<gemma3_latest, hf_gemma3>> >>

get_huggingface_model_name(ollama_model) ==
    LET exact   == {i \in 1..Len(model_mapping) : model_mapping[i][1] = ollama_model}
        partial == {i \in 1..Len(model_mapping) :
                       StartsWith(ollama_model, BeforeFirst(model_mapping[i][1], ":"))}
        First(S) == CHOOSE i \in S : \A j \in S : i <= j
        base_name == Lower(BeforeFirst(ollama_model, ":"))
    IN  IF exact # {} THEN model_mapping[First(exact)][2]
        ELSE IF partial # {} THEN model_mapping[First(partial)][2]
        ELSE IF Contains(base_name, <<"g", "e", "m", "m", "a", "3", "n">>) THEN hf_gemma3n
        ELSE IF Contains(base_name, <<"g", "e", "m", "m", "a", "3">>) THEN hf_gemma3
        ELSE hf_gemma3n

is_unsloth_model(ollama_model) ==
    StartsWith(get_huggingface_model_name(ollama_model), unsloth_prefix)

----------------------------------------------------------------------------
(* services/memory_monitor.MemoryMonitor *)

\* MemoryMonitor(warning_threshold=0.85, critical_threshold=0.95), in percent
warning_threshold == 85
critical_threshold == 95
gpu_threshold == 90

\* memory samples <<system percent, accelerator percent>> (0: no accelerator)
MemorySamples == {<<50, 0>>, <<90, 0>>, <<96, 0>>, <<50, 95>>}

warning_band_cleanup(sample) ==
    [should_cleanup |-> (sample[1] >= warning_threshold /\ sample[1] < critical_threshold)
                            \/ sample[2] >= gpu_threshold,
     critical |-> sample[1] >= critical_threshold]

check_memory_status(sample) ==
    LET system_percent == sample[1]
        gpu_percent == sample[2]
        critical == system_percent >= critical_threshold
        system_cleanup == system_percent >= warning_threshold
        gpu_cleanup == gpu_percent >= gpu_threshold
    IN  [should_cleanup |-> system_cleanup \/ gpu_cleanup, critical |-> critical]

\* one cleanup_memory(aggressive) call, recorded with the reason it was made for
cleanup_memory(cl, reason, aggressive) ==
    cl \cup {[reason |-> reason, aggressive |-> aggressive]}

\* monitor_training_phase at one checkpoint with the memory sampled there
monitor_training_phase(cl, sample) ==
    LET status == check_memory_status(sample)
    IN  IF status.should_cleanup
        THEN cleanup_memory(cl, "checkpoint", status.critical)
        ELSE cl

\* monitor_training_phase at several checkpoints; samples is the set of
\* memory samples seen at them
RECURSIVE monitor_checkpoints(_, _)
monitor_checkpoints(cl, samples) ==
    IF samples = {} THEN cl
    ELSE LET s == CHOOSE x \in samples : TRUE
         IN  monitor_checkpoints(monitor_training_phase(cl, s), samples \ {s})

----------------------------------------------------------------------------
(* models/progress_info.ProgressInfo and services/progress_reporter *)

Min(a, b) == IF a <= b THEN a ELSE b
Max(a, b) == IF a >= b THEN a ELSE b

\* ProgressInfo.create: percentage in tenths of a percent, current_step given
\* in tenths
ProgressPercentage(current_tenths, total_steps) ==
    IF total_steps > 0
    THEN Min(1000, (current_tenths * 100) \div total_steps)
    ELSE 0

report_progress(ch, current_tenths, phase) ==
    Append(ch, [kind |-> "PROGRESS",
                pct |-> ProgressPercentage(current_tenths, 100),
                phase |-> phase])

report_error(ch) ==
    Append(ch, [kind |-> "ERROR", pct |-> 0, phase |-> "error"])

ErrorCount(ch) == Cardinality({i \in 1..Len(ch) : ch[i].kind = "ERROR"})

----------------------------------------------------------------------------
(* services/training_data_processor.TrainingDataProcessor *)

\* kinds of example lines:
\*   "io"    instruction and output, both non-blank
\*   "blank" instruction and output keys present, output blank
\*   "short" a messages list with fewer than two messages
ExampleKinds == {"io", "blank", "short"}

RECURSIVE SeqsUpTo(_, _)
SeqsUpTo(S, n) ==
    IF n = 0 THEN {<<>>}
    ELSE LET shorter == SeqsUpTo(S, n - 1)
         IN  shorter \cup {Append(s, x) : s \in shorter, x \in S}

Datasets == SeqsUpTo(ExampleKinds, MaxExamples)

\* _is_valid_example: "short" is valid through the generic-text branch
is_valid_example(item) == item \in {"io", "short"}

validate_data(data) ==
    IF data = <<>> THEN FALSE
    ELSE LET valid_examples == Cardinality({i \in 1..Len(data) : is_valid_example(data[i])})
         IN  2 * valid_examples > Len(data)

\* _format_single_item returns None for "short"
format_data(data) == SelectSeq(data, LAMBDA item : item \in {"io", "blank"})

----------------------------------------------------------------------------
(* services/lora_trainer.LoRATrainer *)

count_training_examples(data) == Cardinality({i \in 1..Len(data) : data[i] = "io"})

fixed_warmup_hyperparameters(cfg, num_examples) ==
    LET steps == Max(1, num_examples \div (cfg.batch_size * cfg.gradient_accumulation_steps))
    IN  [max_steps |-> steps, warmup_steps |-> 5, save_steps |-> steps,
         logging_steps |-> Max(1, Min(10, steps \div 4))]

calculate_smart_hyperparameters(cfg, num_examples) ==
    LET effective_batch_size == cfg.batch_size * cfg.gradient_accumulation_steps
        warmup_pct == IF num_examples <= 5 THEN 0 ELSE 10
        save_pct == IF num_examples <= 5 THEN 100
                    ELSE IF num_examples <= 20 THEN 50
                    ELSE IF num_examples <= 100 THEN 30 ELSE 20
        steps_per_epoch == Max(1, num_examples \div effective_batch_size)
        min_steps == Min(50, num_examples)
        optimal_max_steps == Max(min_steps, steps_per_epoch)
    IN  [max_steps |-> optimal_max_steps,
         warmup_steps |-> Max(1, (optimal_max_steps * warmup_pct) \div 100),
         save_steps |-> Min(Max(1, (optimal_max_steps * save_pct) \div 100), optimal_max_steps),
         logging_steps |-> Max(1, Min(10, optimal_max_steps \div 4))]

\* ProgressCallback: base_progress=25, training_range=65, in tenths of a percent
base_progress == 250
training_range == 650

\* round to the nearest integer, ties to even (the "%.1f" formatting)
RoundDiv(a, b) ==
    LET q == a \div b
        r == a % b
    IN  IF 2 * r < b THEN q
        ELSE IF 2 * r > b THEN q + 1
        ELSE IF q % 2 = 0 THEN q ELSE q + 1

\* on_step_end / on_log: current_progress in tenths of a percent
step_progress(global_step, max_steps) ==
    IF max_steps > 0
    THEN Min(base_progress + training_range,
             base_progress + RoundDiv(global_step * training_range, max_steps))
    ELSE base_progress

\* on_step_end: the phase tag of the step's progress event
step_phase(global_step, max_steps) ==
    IF max_steps <= 0 \/ 10 * global_step <= max_steps THEN "warmup"
    ELSE IF 10 * global_step <= 8 * max_steps THEN "main_training"
    ELSE "fine_tuning"

----------------------------------------------------------------------------
(* models/adapter_info.AdapterInfo and the registry directory *)

NoModel == <<>>
adapter_suffix == <<"_", "a", "d", "a", "p", "t", "e", "r">>
final_suffix == <<"-", "f", "i", "n", "a", "l">>

\* AdapterInfo.create_new
create_new(adapter_id, base_model, hf_model, adapter_path, registry_path) ==
    [adapter_id |-> adapter_id,
     adapter_name |-> adapter_id \o adapter_suffix,
     base_model |-> base_model,
     hf_model |-> hf_model,
     adapter_path |-> adapter_path,
     registry_path |-> registry_path,
     enabled |-> FALSE,
     training_method |-> "real_lora_peft",
     status |-> "ready",
     active_model |-> NoModel]

\* the registry file <key>_adapter.json written with record rec
WriteRecord(reg, key, rec) ==
    [k \in DOMAIN reg \cup {key} |-> IF k = key THEN rec ELSE reg[k]]

EmptyRegistry == [k \in {} |-> NoModel]

\* AdapterManager.register_adapter up to and including the registry write;
\* the record it serialises and returns
registered_record(adapter_id, base_model, hf_model) ==
    LET adapter_id_clean == sanitize_model_name(adapter_id)
    IN  create_new(adapter_id_clean, base_model, hf_model,
                   [dir |-> "weights", name |-> adapter_id_clean \o adapter_suffix],
                   [dir |-> "registry", name |-> <<>>])

----------------------------------------------------------------------------
(* orchestrator/training_orchestrator.TrainingOrchestrator: one pipeline run *)

Pending == [tag |-> "pending"]
None == [tag |-> "none"]
Raised == [tag |-> "raised"]

PhaseOf(p) ==
    CASE p = "validate" -> "validate"
      [] p \in {"load", "check", "format"} -> "data"
      [] p = "map" -> "map"
      [] p = "base" -> "base"
      [] p \in {"train_begin", "train_loop"} -> "train"
      [] p = "merge" -> "deploy"
      [] p = "register" -> "register"
      [] OTHER -> "none"

\* the statement sequence of execute_training_pipeline
NextPc(p) ==
    CASE p = "validate" -> "load"
      [] p = "load" -> "check"
      [] p = "check" -> "format"
      [] p = "format" -> "map"
      [] p = "map" -> "base"
      [] p = "base" -> "train_begin"
      [] p = "train_begin" -> "train_loop"
      [] p = "train_loop" -> "merge"
      [] p = "merge" -> "register"
      [] p = "register" -> "done"
      [] OTHER -> "done"

\* a handler that catches only the data errors
CatchesValueErrorOnly(exc) == exc = "ValueError"

\* "except Exception" around the body of execute_training_pipeline
Catches(exc) == TRUE

\* the emergency cleanup of the exception handler
handler_cleanup(cl) == cleanup_memory(cl, "recovery", TRUE)

\* a phase of the run begins
Enter(p) ==
    started' = IF started # <<>> /\ started[Len(started)] = PhaseOf(p)
               THEN started ELSE Append(started, PhaseOf(p))

\* the step at p succeeded; the run continues with the next statement
Proceed(p, ch, cl) ==
    /\ channel' = ch
    /\ cleanups' = cl
    /\ pc' = NextPc(p)
    /\ completed' = IF PhaseOf(NextPc(p)) # PhaseOf(p)
                    THEN Append(completed, PhaseOf(p)) ELSE completed
    /\ UNCHANGED failKind

\* a failure branch that reports the failure but lacks its "return None"
ContinueAfterFailure(ch, cl) ==
    /\ channel' = ch
    /\ cleanups' = cl
    /\ result' = None
    /\ failKind' = "returned"
    /\ pc' = NextPc(pc)
    /\ UNCHANGED completed

\* "return None" after a phase reported a failure
ReturnNone(ch, cl) ==
    /\ channel' = ch
    /\ cleanups' = cl
    /\ result' = None
    /\ failKind' = "returned"
    /\ pc' = "done"
    /\ UNCHANGED completed

\* an exception of class exc propagates out of the body of the run
Raise(ch, cl, exc) ==
    /\ pc' = "done"
    /\ failKind' = "raised"
    /\ UNCHANGED completed
    /\ IF Catches(exc)
       THEN /\ channel' = report_error(ch)
            /\ cleanups' = handler_cleanup(cl)
            /\ result' = None
       ELSE /\ channel' = ch
            /\ cleanups' = cl
            /\ result' = Raised

\* _validate_config: the checks of the configuration itself
config_error(cfg) ==
    \/ cfg.base_model = <<>>
    \/ cfg.data_file.kind = "none"
    \/ cfg.data_file.kind = "missing"
    \/ cfg.output_name = <<>>
    \/ cfg.max_steps <= 0

\* _validate_config
validate_config(cfg, ollama_available) == ~config_error(cfg) /\ ollama_available

check_ollama_first(cfg) == <<"ollama list">>

\* the commands _validate_config runs: ollama_service.is_available() comes
\* after the checks of the configuration
validate_externals(cfg) == IF config_error(cfg) THEN <<>> ELSE <<"ollama list">>

ValidateConfig ==
    /\ pc = "validate"
    /\ Enter("validate")
    /\ \E sample \in MemorySamples, ollama_available \in BOOLEAN :
          LET cl == monitor_training_phase(cleanups, sample)
              ch == report_progress(channel, 20, "setup")
          IN  IF validate_config(config, ollama_available)
              THEN Proceed("validate", ch, cl) /\ UNCHANGED result
              ELSE ReturnNone(report_error(ch), cl)
    /\ external' = external \o validate_externals(config)
    /\ UNCHANGED <<config, trainData, formatted, hfName, tconf, step,
                   adapterPath, finalModel, storeVars, toolVars>>

\* data_processor.load_data
LoadData ==
    /\ pc = "load"
    /\ Enter("load")
    /\ LET ch == report_progress(channel, 50, "data_loading")
       IN  IF config.data_file.kind = "corrupt"
           THEN Raise(ch, cleanups, "ValueError") /\ UNCHANGED trainData
           ELSE IF config.data_file.lines = <<>>
           THEN ReturnNone(report_error(ch), cleanups) /\ UNCHANGED trainData
           ELSE /\ Proceed("load", ch, cleanups)
                /\ trainData' = config.data_file.lines
                /\ UNCHANGED result
    /\ UNCHANGED <<config, external, formatted, hfName, tconf, step,
                   adapterPath, finalModel, storeVars, toolVars>>

\* data_processor.validate_data
CheckData ==
    /\ pc = "check"
    /\ Enter("check")
    /\ LET ch == report_progress(channel, 80, "data_validation")
       IN  IF validate_data(trainData)
           THEN Proceed("check", ch, cleanups) /\ UNCHANGED result
           ELSE ReturnNone(report_error(ch), cleanups)
    /\ UNCHANGED <<config, external, trainData, formatted, hfName, tconf, step,
                   adapterPath, finalModel, storeVars, toolVars>>

\* data_processor.format_data
FormatData ==
    /\ pc = "format"
    /\ Enter("format")
    /\ \E sample \in MemorySamples :
          LET ch == report_progress(channel, 120, "data_formatting")
              formatted_data == format_data(trainData)
          IN  IF formatted_data = <<>>
              THEN ReturnNone(report_error(ch), cleanups) /\ UNCHANGED formatted
              ELSE /\ Proceed("format", ch, monitor_training_phase(cleanups, sample))
                   /\ formatted' = formatted_data
                   /\ UNCHANGED result
    /\ UNCHANGED <<config, external, trainData, hfName, tconf, step,
                   adapterPath, finalModel, storeVars, toolVars>>

\* model_mapper.get_huggingface_model_name
MapModel ==
    /\ pc = "map"
    /\ Enter("map")
    /\ LET ch == report_progress(channel, 150, "model_mapping")
           hf_model_name == get_huggingface_model_name(config.base_model)
       IN  IF hf_model_name = <<>>
           THEN ReturnNone(report_error(ch), cleanups) /\ UNCHANGED hfName
           ELSE /\ Proceed("map", ch, cleanups)
                /\ hfName' = hf_model_name
                /\ UNCHANGED result
    /\ UNCHANGED <<config, external, trainData, formatted, tconf, step,
                   adapterPath, finalModel, storeVars, toolVars>>

\* _deploy_base_model_if_needed
DeployBaseModel ==
    /\ pc = "base"
    /\ Enter("base")
    /\ \E sample \in MemorySamples :
          LET ch == report_progress(channel, 180, "model_deployment")
          IN  IF config.base_model \notin served
              THEN ReturnNone(report_error(ch), cleanups)
              ELSE /\ Proceed("base", ch, monitor_training_phase(cleanups, sample))
                   /\ UNCHANGED result
    /\ external' = Append(external, "ollama list")
    /\ UNCHANGED <<config, trainData, formatted, hfName, tconf, step,
                   adapterPath, finalModel, storeVars, toolVars>>

----------------------------------------------------------------------------
(* LoRATrainer.train, as called by the pipeline *)

NoConf == [max_steps |-> 0, warmup_steps |-> 0, save_steps |-> 0, logging_steps |-> 0]
NoPath == [dir |-> "none", name |-> <<>>]

\* progress events of train() between its imports and trainer.train()
SetupEvents ==
    << <<200, "model_loading">>, <<220, "lora_setup">>, <<230, "peft_setup">>,
       <<240, "data_preparation">>, <<250, "tokenization">>, <<250, "training_start">> >>

RECURSIVE report_events(_, _)
report_events(ch, events) ==
    IF events = <<>> THEN ch
    ELSE report_events(report_progress(ch, Head(events)[1], Head(events)[2]), Tail(events))

\* an exception inside train(): the trainer's handler reports it, runs its
\* torch / gc cleanup and returns None, after which the pipeline reports
\* "LoRA training failed"; when the exception came before "import torch" the
\* handler's own torch reference raises instead
TrainerFails(ch, cl, torch_bound) ==
    IF torch_bound
    THEN ReturnNone(report_error(report_error(ch)), cl)
    ELSE Raise(report_error(ch), cl, "UnboundLocalError")

TrainBegin ==
    /\ pc = "train_begin"
    /\ Enter("train_begin")
    /\ \E outcome \in {"ok", "deps_missing", "setup_raise"}, k \in 1..Len(SetupEvents) :
          LET ch == report_progress(channel, 200, "training_init")
              effective_batch_size == config.batch_size * config.gradient_accumulation_steps
          IN  CASE outcome = "deps_missing" ->
                      /\ k = 1
                      /\ ReturnNone(report_error(ch), cleanups)
                      /\ external' = Append(external, "pip install")
                      /\ UNCHANGED <<tconf, step>>
                [] outcome # "deps_missing" /\ effective_batch_size = 0 ->
                      /\ k = 1
                      /\ outcome = "ok"
                      /\ TrainerFails(ch, cleanups, FALSE)
                      /\ UNCHANGED <<tconf, step, external>>
                [] outcome = "setup_raise" /\ effective_batch_size # 0 ->
                      /\ TrainerFails(report_events(ch, SubSeq(SetupEvents, 1, k)), cleanups, TRUE)
                      /\ tconf' = calculate_smart_hyperparameters(
                                      config, count_training_examples(formatted))
                      /\ external' = Append(external, "train")
                      /\ UNCHANGED step
                [] outcome = "ok" /\ effective_batch_size # 0 ->
                      /\ k = 1
                      /\ Proceed("train_begin",
                                 report_events(report_events(ch, SetupEvents),
                                     << <<base_progress, "training_start">>,
                                        <<base_progress, "epoch_start">> >>),
                                 cleanups)
                      /\ tconf' = calculate_smart_hyperparameters(
                                      config, count_training_examples(formatted))
                      /\ step' = 0
                      /\ external' = Append(external, "train")
                      /\ UNCHANGED result
    /\ UNCHANGED <<config, trainData, formatted, hfName, adapterPath, finalModel, storeVars, toolVars>>

\* one optimisation step of trainer.train() with ProgressCallback.on_step_end
TrainStep ==
    /\ pc = "train_loop"
    /\ step < tconf.max_steps
    /\ Enter("train_loop")
    /\ \E outcome \in {"ok", "raise"} :
          IF outcome = "ok"
          THEN /\ step' = step + 1
               /\ channel' = report_progress(channel,
                                 step_progress(step + 1, tconf.max_steps),
                                 step_phase(step + 1, tconf.max_steps))
               /\ UNCHANGED <<pc, cleanups, completed, result, failKind>>
          ELSE /\ TrainerFails(channel, cleanups, TRUE)
               /\ UNCHANGED step
    /\ UNCHANGED <<config, external, trainData, formatted, hfName, tconf, adapterPath,
                   finalModel, storeVars, toolVars>>

\* the end of trainer.train(), saving the adapter, and the pipeline's cleanup
\* after training
TrainEnd ==
    /\ pc = "train_loop"
    /\ step >= tconf.max_steps
    /\ Enter("train_loop")
    /\ \E outcome \in {"ok", "save_raise"}, logged \in BOOLEAN, sample \in MemorySamples :
          LET at_end == step_progress(step, tconf.max_steps)
              ch1 == report_progress(channel, at_end, "epoch_complete")
              ch2 == IF logged THEN report_progress(ch1, at_end, "training_metrics") ELSE ch1
              ch3 == report_progress(ch2, base_progress + training_range, "training_complete")
              ch4 == report_progress(ch3, 900, "saving")
          IN  IF outcome = "ok"
              THEN /\ Proceed("train_loop", ch4,
                              cleanup_memory(monitor_training_phase(cleanups, sample),
                                             "after_training", TRUE))
                   /\ adapterPath' = [dir |-> "output", name |-> <<"l", "o", "r", "a">>]
                   /\ UNCHANGED result
              ELSE /\ sample = <<50, 0>>
                   /\ TrainerFails(ch4, cleanups, TRUE)
                   /\ UNCHANGED adapterPath
    /\ UNCHANGED <<config, external, trainData, formatted, hfName, tconf, step,
                   finalModel, storeVars, toolVars>>

----------------------------------------------------------------------------
(* _merge_and_deploy_if_unsloth and register_adapter, as called by the pipeline *)

\* _merge_and_deploy_if_unsloth on an Unsloth base model.  outcome:
\*   "load_fail"    a failure before the merged model is saved (the function
\*                  returns None or raises before "import shutil" ran): the
\*                  finally block's shutil.rmtree raises UnboundLocalError
\*   "convert_fail" GGUF conversion returned None
\*   "deploy_fail"  ollama create of <output_name>-final failed
\*   "ok"           <output_name>-final is served
MergeOutcomes == {"load_fail", "convert_fail", "deploy_fail", "ok"}

\* _convert_merged_to_gguf_optimized: how often the converter script can have
\* run for an outcome.  It does not run when its dependencies or llama.cpp are
\* missing, and runs a second time after a failure whose stderr names
\* sentencepiece or protobuf and a forced installation that succeeded.
converter_runs(outcome) ==
    CASE outcome = "convert_fail" -> {0, 1, 2}
      [] outcome \in {"deploy_fail", "ok"} -> {1, 2}
      [] OTHER -> {0}

MergeAndDeploy ==
    /\ pc = "merge"
    /\ Enter("merge")
    /\ \E outcome \in MergeOutcomes, samples \in (SUBSET MemorySamples) \ {{}},
          sample \in MemorySamples, runs \in 0..2 :
          LET ch == report_progress(channel, 920, "model_finalization")
              final_model_name == config.output_name \o final_suffix
              completion(cl) == cleanup_memory(monitor_training_phase(cl, sample),
                                               "completion", TRUE)
          IN  IF ~is_unsloth_model(config.base_model)
              THEN /\ outcome = "ok"
                   /\ samples = {sample}
                   /\ runs = 0
                   /\ Proceed("merge", ch, completion(cleanups))
                   /\ finalModel' = config.base_model
                   /\ UNCHANGED <<result, served, external>>
              ELSE LET cl == monitor_checkpoints(cleanups, samples)
                       ch96 == report_progress(ch, 960, "none")
                       ch98 == report_progress(ch96, 980, "none")
                       ch99 == report_progress(ch98, 990, "none")
                       merged == Append(external, "merge")
                       converted == merged \o [i \in 1..runs |-> "convert"]
                   IN  CASE outcome = "load_fail" ->
                               /\ sample = <<50, 0>>
                               /\ runs \in converter_runs(outcome)
                               /\ Raise(ch96, cl, "UnboundLocalError")
                               /\ external' = merged
                               /\ UNCHANGED <<finalModel, served>>
                         [] outcome = "convert_fail" ->
                               /\ sample = <<50, 0>>
                               /\ runs \in converter_runs(outcome)
                               /\ ReturnNone(report_error(ch98), cl)
                               /\ external' = converted
                               /\ UNCHANGED <<finalModel, served>>
                         [] outcome = "deploy_fail" ->
                               /\ sample = <<50, 0>>
                               /\ runs \in converter_runs(outcome)
                               /\ ReturnNone(report_error(ch99), cl)
                               /\ external' = Append(converted, "ollama create")
                               /\ UNCHANGED <<finalModel, served>>
                         [] outcome = "ok" ->
                               /\ runs \in converter_runs(outcome)
                               /\ external' = Append(converted, "ollama create")
                               /\ Proceed("merge", ch99, completion(cl))
                               /\ finalModel' = final_model_name
                               /\ served' = served \cup {final_model_name}
                               /\ UNCHANGED result
    /\ UNCHANGED <<config, trainData, formatted, hfName, tconf, step,
                   adapterPath, registry, weights, op, activated, toolVars>>

\* the AdapterInfo the pipeline builds itself before registration
pipeline_adapter_info(cfg, hf_model_name, adapter_path) ==
    [create_new(cfg.output_name, cfg.base_model, hf_model_name, adapter_path, adapter_path)
        EXCEPT !.status = "deployed", !.training_method = "memory_optimized_lora"]

\* returning the AdapterInfo the pipeline built itself
return_own_adapter_info(adapter_info, registration_success) == adapter_info

\* what a successful run returns: the value register_adapter returned
pipeline_return_value(adapter_info, registration_success) == registration_success

\* outcome of register_adapter:
\*   "ok"          weights copied, registry file written
\*   "copy_error"  copying the weights raised (an older copy is already removed)
\*   "write_error" writing the registry file raised (the weights are copied)
RegisterOutcomes == {"ok", "copy_error", "write_error"}

RegisterAdapter ==
    /\ pc = "register"
    /\ Enter("register")
    /\ \E outcome \in RegisterOutcomes, sample \in MemorySamples :
          LET ch == report_events(channel, << <<960, "metadata_creation">>, <<980, "registration">> >>)
              adapter_info == pipeline_adapter_info(config, hfName, adapterPath)
              rec == registered_record(config.output_name, config.base_model, hfName)
          IN  CASE outcome = "ok" ->
                      /\ weights' = weights \cup {rec.adapter_id}
                      /\ registry' = WriteRecord(registry, rec.adapter_id, rec)
                      /\ channel' = report_progress(ch, 1000, "completion")
                      /\ cleanups' = monitor_training_phase(cleanups, sample)
                      /\ result' = pipeline_return_value(adapter_info, rec)
                      /\ pc' = "done"
                      /\ completed' = Append(completed, "register")
                      /\ UNCHANGED failKind
                [] outcome = "copy_error" ->
                      /\ sample = <<50, 0>>
                      /\ weights' = weights \ {rec.adapter_id}
                      /\ ReturnNone(report_error(ch), cleanups)
                      /\ UNCHANGED registry
                [] outcome = "write_error" ->
                      /\ sample = <<50, 0>>
                      /\ weights' = weights \cup {rec.adapter_id}
                      /\ ReturnNone(report_error(ch), cleanups)
                      /\ UNCHANGED registry
    /\ UNCHANGED <<config, external, trainData, formatted, hfName, tconf, step,
                   adapterPath, finalModel, served, op, activated, toolVars>>

----------------------------------------------------------------------------
(* training_modules/deployment.deploy_to_ollama: the retry loop *)

MaxRetries == 3

\* what one pass through the loop body can end with: the Modelfile is not
\* there, "ollama pull" fails, "ollama create" fails with the file-sync
\* message or with another one, the created model is not listed, another
\* exception (the executable is missing), or a verified model
AttemptOutcomes ==
    {"no_modelfile", "pull_failed", "sync_error", "create_error", "unverified",
     "unexpected", "ok"}

\* the passes that reach the "ollama create" call
CreateCalled == {"sync_error", "create_error", "unverified", "ok"}

NoDeploy ==
    [pc |-> "idle", max_retries |-> 0, attempt |-> 0, creates |-> 0,
     retried |-> {}, verified |-> FALSE, result |-> FALSE]

retry_always(attempt, max_retries) == TRUE

\* attempt < max_retries - 1, the test before every "continue"
retries_left(attempt, max_retries) == attempt < max_retries - 1

\* whether the loop goes round again after a pass that ended with outcome
retries_after(outcome, attempt, max_retries) ==
    CASE outcome = "ok" -> FALSE
      [] outcome = "sync_error" -> retries_left(attempt, max_retries)
      [] OTHER -> retries_left(attempt, max_retries)

\* the call: "for attempt in range(max_retries)" with an empty range falls
\* through to "return False"
DeployToOllama ==
    /\ deploy.pc = "idle"
    /\ \E max_retries \in 0..MaxRetries :
          deploy' = [NoDeploy EXCEPT !.max_retries = max_retries,
                                     !.pc = IF max_retries = 0 THEN "done" ELSE "attempt"]
    /\ UNCHANGED <<pipeVars, storeVars, plan, call>>

\* one pass through the loop body
DeployAttempt ==
    /\ deploy.pc = "attempt"
    /\ \E outcome \in AttemptOutcomes :
          LET creates == deploy.creates + (IF outcome \in CreateCalled THEN 1 ELSE 0)
          IN  IF outcome = "ok"
              THEN deploy' = [deploy EXCEPT !.pc = "done", !.creates = creates,
                                            !.verified = TRUE, !.result = TRUE]
              ELSE IF retries_after(outcome, deploy.attempt, deploy.max_retries)
              THEN deploy' = [deploy EXCEPT !.attempt = @ + 1, !.creates = creates,
                                            !.retried = @ \cup {outcome}]
              ELSE deploy' = [deploy EXCEPT !.pc = "done", !.creates = creates,
                                            !.result = FALSE]
    /\ UNCHANGED <<pipeVars, storeVars, plan, call>>

----------------------------------------------------------------------------
(* training_modules/step_calculator: calculate_optimal_steps *)

MaxDatasetSize == 27

\* learning rates are in units of 1e-5; a modifier is the decimal literal of
\* the source as a fraction num/den, with "loss" telling how the double
\* nearest to the literal lies below it (see float_times)
\* dataset sizes go up to MaxDatasetSize, with some around the thresholds
\* beyond it.
PlanInputs ==
    [dataset_size : 1..MaxDatasetSize \cup {50, 51, 100, 101, 200, 201, 202, 400, 401, 1000},
     lora_rank : {8, 16, 32, 64},
     learning_rate : {50, 30, 10, 5},
     is_incremental : BOOLEAN,
     task_complexity : {"simple", "medium", "complex"}]

NoPlan == [inputs |-> [dataset_size |-> 0], base_steps |-> 0, steps |-> 0]

shrinking_base_steps(dataset_size) == 3000 - 5 * dataset_size

calculate_base_steps(dataset_size) ==
    IF dataset_size <= 5 THEN 550
    ELSE IF dataset_size <= 10 THEN 650
    ELSE IF dataset_size <= 15 THEN 700
    ELSE IF dataset_size <= 25 THEN 800
    ELSE IF dataset_size <= 50 THEN 1000
    ELSE IF dataset_size <= 100 THEN 1300
    ELSE IF dataset_size <= 200 THEN 1600
    ELSE Min(2000 + (dataset_size - 200) * 5, 3000)

calculate_rank_modifier(lora_rank) ==
    IF lora_rank <= 8 THEN [num |-> 17, den |-> 20, loss |-> <<1, 5>>]          \* 0.85
    ELSE IF lora_rank <= 16 THEN [num |-> 1, den |-> 1, loss |-> <<0, 1>>]      \* 1.0
    ELSE IF lora_rank <= 32 THEN [num |-> 23, den |-> 20, loss |-> <<4, 5>>]    \* 1.15
    ELSE [num |-> 13, den |-> 10, loss |-> <<0, 1>>]                            \* 1.3

calculate_lr_modifier(learning_rate) ==
    IF learning_rate >= 50 THEN [num |-> 4, den |-> 5, loss |-> <<0, 1>>]       \* 0.8
    ELSE IF learning_rate >= 30 THEN [num |-> 1, den |-> 1, loss |-> <<0, 1>>]  \* 1.0
    ELSE IF learning_rate >= 10 THEN [num |-> 6, den |-> 5, loss |-> <<2, 5>>]  \* 1.2
    ELSE [num |-> 7, den |-> 5, loss |-> <<4, 5>>]                              \* 1.4

calculate_complexity_modifier(task_complexity) ==
    CASE task_complexity = "simple" -> [num |-> 7, den |-> 10, loss |-> <<2, 5>>]   \* 0.7
      [] task_complexity = "complex" -> [num |-> 7, den |-> 5, loss |-> <<4, 5>>]   \* 1.4
      [] OTHER -> [num |-> 1, den |-> 1, loss |-> <<0, 1>>]                         \* 1.0

\* int(steps * modifier) in double arithmetic.  The product of an integer and
\* a literal whose nearest double lies below it falls short of an exact
\* integer result k when the shortfall steps * (literal - double) exceeds
\* half the spacing of the doubles below k; with loss = <<a, b>> that is
\* steps * a > b * 2^floor(log2 k), and int() then yields k - 1.
float_times(steps, modifier) ==
    LET k == (steps * modifier.num) \div modifier.den
        exact == (steps * modifier.num) % modifier.den = 0
        pow2 == CHOOSE q \in {2^i : i \in 0..20} : q <= k /\ k < 2 * q
    IN  IF exact /\ k > 0 /\ steps * modifier.loss[1] > modifier.loss[2] * pow2
        THEN k - 1
        ELSE k

apply_safety_bounds(steps, dataset_size, is_incremental) ==
    LET min_steps == IF is_incremental THEN 100
                     ELSE IF dataset_size <= 10 THEN 400
                     ELSE IF dataset_size <= 50 THEN 500
                     ELSE 800
        max_steps == IF dataset_size <= 5 THEN 1000
                     ELSE IF dataset_size <= 20 THEN dataset_size * 50
                     ELSE dataset_size * 25
        absolute_max == 5000
    IN  Max(min_steps, Min(steps, Min(max_steps, absolute_max)))

calculate_optimal_steps(in) ==
    LET base_steps == calculate_base_steps(in.dataset_size)
        ranked == float_times(base_steps, calculate_rank_modifier(in.lora_rank))
        rated == float_times(ranked, calculate_lr_modifier(in.learning_rate))
        weighed == float_times(rated, calculate_complexity_modifier(in.task_complexity))
        steps == IF in.is_incremental
                 THEN float_times(weighed, [num |-> 7, den |-> 10, loss |-> <<2, 5>>])
                 ELSE weighed
    IN  [inputs |-> in,
         base_steps |-> base_steps,
         steps |-> apply_safety_bounds(steps, in.dataset_size, in.is_incremental)]

CalculateOptimalSteps ==
    /\ plan = NoPlan
    /\ \E in \in PlanInputs : plan' = calculate_optimal_steps(in)
    /\ UNCHANGED <<pipeVars, storeVars, deploy, call>>

\* no pure helper has been called on its own
NoCall == [fn |-> "none"]

----------------------------------------------------------------------------
(* The pipeline specification *)

BaseModels == {gemma3_latest, gemma3n_latest}

OutputNames == {<<"M", "y", " ", "A">>, <<"a", "1">>}

DataFiles ==
    {[kind |-> "file", lines |-> d] : d \in Datasets}
        \cup {[kind |-> "corrupt", lines |-> <<>>]}

\* configurations that pass _validate_config when the runtime is available
ValidConfigs ==
    [base_model : BaseModels, data_file : DataFiles, output_name : OutputNames,
     max_steps : {100}, batch_size : {1}, gradient_accumulation_steps : {4, 0}]

SomeConfig ==
    [base_model |-> gemma3_latest, data_file |-> [kind |-> "file", lines |-> <<"io">>],
     output_name |-> <<"a", "1">>, max_steps |-> 100, batch_size |-> 1,
     gradient_accumulation_steps |-> 4]

\* configurations with one field that _validate_config rejects
FaultyConfigs ==
    {[SomeConfig EXCEPT !.base_model = <<>>],
     [SomeConfig EXCEPT !.data_file = [kind |-> "none", lines |-> <<>>]],
     [SomeConfig EXCEPT !.data_file = [kind |-> "missing", lines |-> <<>>]],
     [SomeConfig EXCEPT !.output_name = <<>>],
     [SomeConfig EXCEPT !.max_steps = 0]}

Configs == ValidConfigs \cup FaultyConfigs

NoOp == [name |-> "none", adapter_id |-> <<>>, strategy |-> "none",
         attaches |-> 0, merges |-> 0, fallbacks |-> 0, attach_error |-> "none",
         error |-> "none", success |-> FALSE, active_model |-> NoModel]

Init ==
    /\ pc = "validate"
    /\ config \in Configs
    /\ channel = <<>>
    /\ started = <<>>
    /\ completed = <<>>
    /\ result = Pending
    /\ failKind = "none"
    /\ cleanups = {}
    /\ trainData = <<>>
    /\ formatted = <<>>
    /\ hfName = <<>>
    /\ tconf = NoConf
    /\ step = 0
    /\ adapterPath = NoPath
    /\ finalModel = NoModel
    /\ external = <<>>
    /\ registry = EmptyRegistry
    /\ weights = {}
    /\ served \in SUBSET BaseModels
    /\ op = NoOp
    /\ activated = EmptyRegistry
    /\ deploy = NoDeploy
    /\ plan = NoPlan
    /\ call = NoCall

Next ==
    \/ ValidateConfig
    \/ LoadData
    \/ CheckData
    \/ FormatData
    \/ MapModel
    \/ DeployBaseModel
    \/ TrainBegin
    \/ TrainStep
    \/ TrainEnd
    \/ MergeAndDeploy
    \/ RegisterAdapter

Spec == Init /\ [][Next]_vars

----------------------------------------------------------------------------
(* Claims about the pipeline run *)

IsPrefix(s, t) == Len(s) <= Len(t) /\ SubSeq(t, 1, Len(s)) = s

PipelineOrder == <<"validate", "data", "map", "base", "train", "deploy", "register">>

Failed == pc = "done" /\ failKind # "none"

\* C1: the phases of a run start in the fixed order validate, data, map,
\* base, train, deploy, register; a phase starts only when every earlier
\* phase has succeeded; and once a phase has failed the run is over with that
\* phase as the last one started (no later phase was executed).
C1_PhaseOrder ==
    /\ IsPrefix(started, PipelineOrder)
    /\ IsPrefix(completed, started)
    /\ Len(started) - Len(completed) <= 1
    /\ (failKind # "none" => pc = "done" /\ Len(completed) = Len(started) - 1)

\* a run whose base-model check failed: training, deployment and registration
\* never started
C1_Witness ==
    /\ Failed
    /\ started = <<"validate", "data", "map", "base">>
    /\ completed = <<"validate", "data", "map">>

\* C2: every failed run has written exactly one ERROR line to the progress
\* channel.
C2_ExactlyOneError == Failed => ErrorCount(channel) = 1

\* C3: a run never ends with an exception escaping execute_training_pipeline;
\* every failed run, also one where a collaborator raised, returns None.
C3_NeverRaises ==
    pc = "done" => /\ result # Raised
                   /\ (failKind # "none" => result = None)

\* a run in which the merge step raised and the run still returned None
C3_Witness ==
    /\ Failed
    /\ failKind = "raised"
    /\ started[Len(started)] = "deploy"
    /\ result = None

\* C4: every failed run has performed the aggressive cleanup of failure
\* recovery before it returned.
C4_CleanupOnEveryFailure ==
    Failed => [reason |-> "recovery", aggressive |-> TRUE] \in cleanups

\* C5: a run that returns a record returns the record register_adapter wrote
\* to the registry, and it does so only after every phase has succeeded;
\* the registry holds a record of this run only if the phases before
\* registration succeeded.
C5_ReturnsRegisteredRecord ==
    /\ (pc = "done" /\ result # None /\ result # Raised) =>
            /\ completed = PipelineOrder
            /\ failKind = "none"
            /\ result.adapter_id \in DOMAIN registry
            /\ registry[result.adapter_id] = result
    /\ (DOMAIN registry # {} =>
            /\ pc = "done"
            /\ failKind = "none"
            /\ completed = PipelineOrder)

\* a successful run whose output name is changed by sanitisation
C5_Witness ==
    /\ pc = "done"
    /\ failKind = "none"
    /\ config.output_name # sanitize_model_name(config.output_name)
    /\ result.adapter_id = sanitize_model_name(config.output_name)

----------------------------------------------------------------------------
(* services/adapter_manager.AdapterManager: lookup and compatibility *)

\* AdapterInfo.from_dict keeps only the fields of the dataclass
from_dict(data) == [data EXCEPT !.active_model = NoModel]

\* get_adapter_info finds a registry file under the id as given or sanitized
adapter_found(reg, adapter_id) ==
    adapter_id \in DOMAIN reg \/ sanitize_model_name(adapter_id) \in DOMAIN reg

get_adapter_info(reg, adapter_id) ==
    IF adapter_id \in DOMAIN reg
    THEN from_dict(reg[adapter_id])
    ELSE from_dict(reg[sanitize_model_name(adapter_id)])

unsloth_indicators ==
    {<<"u", "n", "s", "l", "o", "t", "h", "/">>, <<"g", "e", "m", "m", "a", "-", "3">>, <<"g", "e", "m", "m", "a", "-", "2">>,
     <<"Q", "w", "e", "n", "3">>, <<"m", "i", "s", "t", "r", "a", "l", "-", "7", "b", "-", "v", "0", ".", "3">>,
     <<"M", "i", "s", "t", "r", "a", "l", "-", "N", "e", "m", "o">>, <<"L", "l", "a", "m", "a", "-", "3", ".", "1">>, <<"L", "l", "a", "m", "a", "-", "3">>}

unsloth_base_patterns == {<<"g", "e", "m", "m", "a", "3", ":">>, <<"g", "e", "m", "m", "a", "3", "n", ":">>}

\* compatibility that looks at the "unsloth/" prefix of the identifier only
compatibility_by_prefix(adapter_info) == StartsWith(adapter_info.hf_model, unsloth_prefix)

\* _check_adapter_compatibility: the is_unsloth flag
check_adapter_compatibility(adapter_info) ==
    \/ \E indicator \in unsloth_indicators : Contains(adapter_info.hf_model, indicator)
    \/ \E pattern \in unsloth_base_patterns : Contains(adapter_info.base_model, pattern)

\* outcomes of "ollama create": success, or a failure with what stderr says
CreateOutcomes == {"ok", "unsupported architecture", "other"}

\* outcomes of "ollama rm": the model is removed, or the command fails and
\* the model stays
RemoveOutcomes == {"removed", "error"}

remove_model(models, name, outcome) ==
    IF outcome = "removed" THEN models \ {name} ELSE models

SetActivated(key, model) ==
    activated' = WriteRecord(activated, key, model)

----------------------------------------------------------------------------
(* The adapter registry operations *)

phi_tag == <<"p", "h", "i", ":", "4">>
hf_phi == <<"m", "s", "/", "p", "h", "i">>

\* <<base model tag, HuggingFace identifier>> pairs adapters are registered with
ModelSetups == {<<gemma3_latest, hf_gemma3>>, <<gemma3n_latest, hf_gemma3n>>,
                <<phi_tag, hf_phi>>}

\* output names adapters were trained under
AdapterIds == {<<"M", "y", " ", "A">>}

\* ids callers pass to enable / disable: as trained, or as sanitized
CallerIds == AdapterIds \cup {sanitize_model_name(id) : id \in AdapterIds}

\* --output-model of the deployment tool
output_model == <<"o", "u", "t">>

real_with_separator == <<"_", "w", "i", "t", "h", "_">>

Outcome(name, adapter_id, strategy, success, active_model) ==
    [NoOp EXCEPT !.name = name, !.adapter_id = adapter_id, !.strategy = strategy,
                 !.success = success, !.active_model = active_model]

NotFound(name, adapter_id) == Outcome(name, adapter_id, "none", FALSE, NoModel)

\* AdapterManager.register_adapter called on its own with trained weights
Register ==
    /\ pc = "idle"
    /\ \E adapter_id \in AdapterIds, setup \in ModelSetups :
          LET rec == registered_record(adapter_id, setup[1], setup[2])
          IN  /\ weights' = weights \cup {rec.adapter_id}
              /\ registry' = WriteRecord(registry, rec.adapter_id, rec)
              /\ op' = Outcome("register", adapter_id, "none", TRUE, NoModel)
    /\ UNCHANGED <<served, activated, pipeVars, toolVars>>

\* ollama_lora_training.manage_lora_adapters: the record is written under the
\* output name as given, into the same registry directory
ManageLoraAdapters ==
    /\ pc = "idle"
    /\ \E output_name \in AdapterIds, setup \in ModelSetups :
          LET adapter_info ==
                  create_new(output_name, setup[1], setup[2],
                             [dir |-> "weights", name |-> output_name \o adapter_suffix],
                             [dir |-> "registry", name |-> <<>>])
          IN  /\ weights' = weights \cup {output_name}
              /\ registry' = WriteRecord(registry, output_name, adapter_info)
              /\ op' = Outcome("manage", output_name, "none", TRUE, NoModel)
    /\ UNCHANGED <<served, activated, pipeVars, toolVars>>

\* a training run's _deploy_final_model_to_ollama created <output_name>-final
DeployFinalModel ==
    /\ pc = "idle"
    /\ \E adapter_id \in AdapterIds :
          /\ served' = served \cup {adapter_id \o final_suffix}
          /\ op' = Outcome("train", adapter_id, "none", TRUE, adapter_id \o final_suffix)
    /\ UNCHANGED <<registry, weights, activated, pipeVars, toolVars>>

\* _enable_unsloth_final_model
enable_unsloth_final_model(adapter_info, adapter_id) ==
    LET final_model_name == adapter_id \o final_suffix
    IN  IF final_model_name \notin served
        THEN /\ op' = Outcome("enable", adapter_id, "unsloth_final_model", FALSE, NoModel)
             /\ UNCHANGED <<served, activated>>
        ELSE /\ op' = Outcome("enable", adapter_id, "unsloth_final_model", TRUE,
                              final_model_name)
             /\ SetActivated(adapter_info.adapter_id, final_model_name)
             /\ UNCHANGED served

\* _enable_standard_adapter with _create_ollama_model_with_error_detection
enable_standard_adapter(adapter_info, adapter_id, modelfile_ok, created) ==
    LET active_model_name == create_sanitized_model_name(adapter_info.base_model, adapter_id)
        attempt == Outcome("enable", adapter_id, "adapter_directive", FALSE, NoModel)
    IN  IF ~modelfile_ok
        THEN /\ op' = attempt
             /\ UNCHANGED <<served, activated>>
        ELSE IF created = "ok"
        THEN /\ op' = [attempt EXCEPT !.attaches = 1, !.success = TRUE,
                                      !.active_model = active_model_name]
             /\ served' = served \cup {active_model_name}
             /\ SetActivated(adapter_info.adapter_id, active_model_name)
        ELSE /\ op' = [attempt EXCEPT !.attaches = 1, !.attach_error = created]
             /\ UNCHANGED <<served, activated>>

\* AdapterManager.enable_adapter(adapter_id)
AdapterManager_enable_adapter(adapter_id) ==
    /\ IF ~adapter_found(registry, adapter_id)
       THEN /\ op' = NotFound("enable", adapter_id)
            /\ UNCHANGED <<served, activated>>
       ELSE LET adapter_info == get_adapter_info(registry, adapter_id)
            IN  IF check_adapter_compatibility(adapter_info)
                THEN enable_unsloth_final_model(adapter_info, adapter_id)
                ELSE \/ enable_standard_adapter(adapter_info, adapter_id, FALSE, "ok")
                     \/ \E created \in CreateOutcomes :
                           enable_standard_adapter(adapter_info, adapter_id, TRUE, created)
    /\ UNCHANGED <<registry, weights>>

\* AdapterManager.enable_adapter called by a client of the class
Enable ==
    /\ pc = "idle"
    /\ \E adapter_id \in CallerIds : AdapterManager_enable_adapter(adapter_id)
    /\ UNCHANGED <<pipeVars, toolVars>>

\* AdapterManager.disable_adapter; saved tells whether _save_adapter_info
\* wrote the file or raised
disable_and_delete(adapter_info, adapter_id, saved, removed) ==
    /\ registry' = [k \in DOMAIN registry \ {adapter_info.adapter_id} |-> registry[k]]
    /\ served' = served
    /\ op' = Outcome("disable", adapter_id, "none", TRUE, NoModel)

disable_enabled_only(adapter_info, adapter_id, saved, removed) ==
    /\ registry' = registry
    /\ served' = served
    /\ op' = Outcome("disable", adapter_id, "none", adapter_info.enabled, NoModel)

disable_adapter(adapter_info, adapter_id, saved, removed) ==
    LET active_model_name == create_sanitized_model_name(adapter_info.base_model, adapter_id)
    IN  IF ~saved
        THEN /\ op' = [Outcome("disable", adapter_id, "none", FALSE, NoModel)
                            EXCEPT !.error = "save_failed"]
             /\ UNCHANGED <<registry, served>>
        ELSE /\ registry' = WriteRecord(registry, adapter_info.adapter_id,
                                [adapter_info EXCEPT !.enabled = FALSE])
             /\ served' = remove_model(served, active_model_name, removed)
             /\ op' = Outcome("disable", adapter_id, "none", TRUE, NoModel)

\* AdapterManager.disable_adapter(adapter_id), the lookup included
AdapterManager_disable_adapter(adapter_id) ==
    /\ IF ~adapter_found(registry, adapter_id)
       THEN /\ op' = NotFound("disable", adapter_id)
            /\ UNCHANGED <<registry, served>>
       ELSE LET adapter_info == get_adapter_info(registry, adapter_id)
            IN  \/ disable_adapter(adapter_info, adapter_id, FALSE, "error")
                \/ \E removed \in RemoveOutcomes :
                      disable_adapter(adapter_info, adapter_id, TRUE, removed)
    /\ UNCHANGED <<weights, activated>>

Disable ==
    /\ pc = "idle"
    /\ \E adapter_id \in CallerIds : AdapterManager_disable_adapter(adapter_id)
    /\ UNCHANGED <<pipeVars, toolVars>>

----------------------------------------------------------------------------
(* real_adapter_manager: enable_adapter / disable_adapter *)

\* create_ollama_model_from_gguf: the name of the model it creates
real_active_model_name(adapter_info) ==
    ReplaceChar(adapter_info.base_model, ":", <<"_">>)
        \o real_with_separator \o adapter_info.adapter_id

\* outcome of the merge, convert, create steps of enable_adapter
RealEnableOutcomes == {"merge_fail", "convert_fail", "create_fail", "ok"}

\* real_adapter_manager.enable_adapter; load_adapter_info looks the id up as given
RealEnable ==
    /\ pc = "idle"
    /\ \E adapter_id \in CallerIds :
          IF adapter_id \notin DOMAIN registry
          THEN /\ op' = NotFound("real_enable", adapter_id)
               /\ UNCHANGED <<registry, served, activated>>
          ELSE LET adapter_info == registry[adapter_id]
                   active_model_name == real_active_model_name(adapter_info)
                   attempt == [Outcome("real_enable", adapter_id, "real_merge", FALSE, NoModel)
                                  EXCEPT !.merges = 1]
               IN  \E outcome \in RealEnableOutcomes :
                      IF outcome = "ok"
                      THEN /\ served' = served \cup {active_model_name}
                           /\ registry' = WriteRecord(registry, adapter_id,
                                              [adapter_info EXCEPT !.enabled = TRUE,
                                                   !.active_model = active_model_name])
                           /\ op' = [attempt EXCEPT !.success = TRUE,
                                                    !.active_model = active_model_name]
                           /\ SetActivated(adapter_id, active_model_name)
                      ELSE /\ op' = attempt
                           /\ UNCHANGED <<registry, served, activated>>
    /\ UNCHANGED <<weights, pipeVars, toolVars>>

\* real_adapter_manager.disable_adapter
RealDisable ==
    /\ pc = "idle"
    /\ \E adapter_id \in CallerIds :
          IF adapter_id \notin DOMAIN registry
          THEN /\ op' = NotFound("real_disable", adapter_id)
               /\ UNCHANGED <<registry, served>>
          ELSE LET adapter_info == registry[adapter_id]
               IN  /\ IF adapter_info.active_model # NoModel
                      THEN \E removed \in RemoveOutcomes :
                              served' = remove_model(served, adapter_info.active_model, removed)
                      ELSE UNCHANGED served
                   /\ \E saved \in BOOLEAN :
                         IF saved
                         THEN /\ registry' = WriteRecord(registry, adapter_id,
                                      [adapter_info EXCEPT !.enabled = FALSE,
                                                           !.active_model = NoModel])
                              /\ op' = Outcome("real_disable", adapter_id, "none", TRUE,
                                               NoModel)
                         ELSE /\ UNCHANGED registry
                              /\ op' = [Outcome("real_disable", adapter_id, "none", FALSE,
                                                NoModel) EXCEPT !.error = "save_failed"]
    /\ UNCHANGED <<weights, activated, pipeVars, toolVars>>

----------------------------------------------------------------------------
(* convert_lora_to_gguf: deploy_lora_adapter *)

\* a fallback on every failed "ollama create"
is_any_error(stderr) == stderr # "ok"

\* "unsupported architecture" in result.stderr
is_architecture_error(stderr) == stderr = "unsupported architecture"

\* the weight directories deploy_lora_adapter searches
possible_adapter_ids(adapter_id) ==
    {adapter_id, ReplaceChar(adapter_id, "_", <<"-">>), ReplaceChar(adapter_id, "-", <<"_">>)}

\* create_adapter_modelfile_standard, with create_fallback_model
create_adapter_modelfile_standard(adapter_id, created, fallback_created) ==
    LET attempt == [Outcome("deploy", adapter_id, "adapter_directive", FALSE, NoModel)
                       EXCEPT !.attaches = 1]
    IN  IF created = "ok"
        THEN /\ served' = served \cup {output_model}
             /\ op' = [attempt EXCEPT !.success = TRUE, !.active_model = output_model]
        ELSE IF is_architecture_error(created)
        THEN IF fallback_created
             THEN /\ served' = served \cup {output_model}
                  /\ op' = [attempt EXCEPT !.strategy = "fallback_base", !.fallbacks = 1,
                                           !.attach_error = created, !.success = TRUE,
                                           !.active_model = output_model]
             ELSE /\ op' = [attempt EXCEPT !.strategy = "fallback_base", !.fallbacks = 1,
                                           !.attach_error = created]
                  /\ UNCHANGED served
        ELSE /\ op' = [attempt EXCEPT !.attach_error = created]
             /\ UNCHANGED served

\* deploy_lora_adapter
DeployStandard ==
    /\ pc = "idle"
    /\ \E adapter_id \in CallerIds :
          IF possible_adapter_ids(adapter_id) \cap weights = {}
          THEN /\ op' = NotFound("deploy", adapter_id)
               /\ UNCHANGED served
          ELSE \E created \in CreateOutcomes, fallback_created \in BOOLEAN :
                  create_adapter_modelfile_standard(adapter_id, created, fallback_created)
    /\ UNCHANGED <<registry, weights, activated, pipeVars, toolVars>>

----------------------------------------------------------------------------
(* The registry specification *)

AdapterInit ==
    /\ pc = "idle"
    /\ config = SomeConfig
    /\ channel = <<>>
    /\ started = <<>>
    /\ completed = <<>>
    /\ result = Pending
    /\ failKind = "none"
    /\ cleanups = {}
    /\ trainData = <<>>
    /\ formatted = <<>>
    /\ hfName = <<>>
    /\ tconf = NoConf
    /\ step = 0
    /\ adapterPath = NoPath
    /\ finalModel = NoModel
    /\ external = <<>>
    /\ registry = EmptyRegistry
    /\ weights = {}
    /\ served = {}
    /\ op = NoOp
    /\ activated = EmptyRegistry
    /\ deploy = NoDeploy
    /\ plan = NoPlan
    /\ call = NoCall

AdapterNext ==
    \/ Register
    \/ DeployFinalModel
    \/ Enable
    \/ Disable
    \/ RealEnable
    \/ RealDisable
    \/ DeployStandard

AdapterSpec == AdapterInit /\ [][AdapterNext]_vars

\* ollama_lora_training.enable_lora_adapter: the record is looked up under the
\* id as given and saved as enabled before "ollama create" runs
EnableLoraAdapter ==
    /\ pc = "idle"
    /\ \E adapter_id \in CallerIds :
          IF adapter_id \notin DOMAIN registry
          THEN /\ op' = NotFound("enable_lora", adapter_id)
               /\ UNCHANGED <<registry, served, activated>>
          ELSE LET adapter_info == registry[adapter_id]
                   active_model_name == real_active_model_name(adapter_info)
                   attempt == [Outcome("enable_lora", adapter_id, "adapter_directive",
                                       FALSE, NoModel) EXCEPT !.attaches = 1]
               IN  /\ registry' = WriteRecord(registry, adapter_id,
                                      [adapter_info EXCEPT !.enabled = TRUE])
                   /\ \E created \in BOOLEAN :
                         IF created
                         THEN /\ served' = served \cup {active_model_name}
                              /\ op' = [attempt EXCEPT !.success = TRUE,
                                                       !.active_model = active_model_name]
                              /\ SetActivated(adapter_id, active_model_name)
                         ELSE /\ op' = attempt
                              /\ UNCHANGED <<served, activated>>
    /\ UNCHANGED <<weights, pipeVars, toolVars>>

\* the registry directory shared by AdapterManager and the single-script
\* trainer ollama_lora_training
RegistryNext ==
    \/ Register
    \/ ManageLoraAdapters
    \/ Enable
    \/ Disable

RegistrySpec == AdapterInit /\ [][RegistryNext]_vars

\* the three ways to enable a registered adapter
EnablingSpec ==
    AdapterInit /\ [][Register \/ Enable \/ RealEnable \/ EnableLoraAdapter]_vars

\* enable_adapter called with the adapter_id of the record a successful
\* pipeline run returned
EnableRegistered ==
    /\ pc = "done"
    /\ result \notin {Pending, None, Raised}
    /\ AdapterManager_enable_adapter(result.adapter_id)
    /\ UNCHANGED <<pipeVars, toolVars>>

\* one pipeline run followed by enabling the adapter it registered
RunAndEnableSpec == Init /\ [][Next \/ EnableRegistered]_vars

\* register_adapter called several times with ids as the callers give them;
\* call.returned keeps, per id as given, the record its latest call returned
RegisterAdapterCall ==
    /\ pc = "idle"
    /\ \E adapter_id \in {<<"M", "y", " ", "A">>, <<"m", "y", "-", "a">>, <<"b">>},
          setup \in ModelSetups :
          LET rec == registered_record(adapter_id, setup[1], setup[2])
              returned == IF call.fn = "register_adapter" THEN call.returned
                          ELSE EmptyRegistry
          IN  /\ weights' = weights \cup {rec.adapter_id}
              /\ registry' = WriteRecord(registry, rec.adapter_id, rec)
              /\ op' = Outcome("register", adapter_id, "none", TRUE, NoModel)
              /\ call' = [fn |-> "register_adapter",
                          returned |-> WriteRecord(returned, adapter_id, rec)]
    /\ UNCHANGED <<served, activated, pipeVars, deploy, plan>>

RegisterSpec == AdapterInit /\ [][RegisterAdapterCall]_vars

----------------------------------------------------------------------------
(* adapter_manager_bridge: the command line of the registry *)

always_zero(success) == 0

\* main: sys.exit(0 if result.get('success') else 1); real_adapter_manager.main
\* maps result['success'] of its enable and disable the same way
exit_status(success) == IF success THEN 0 ELSE 1

\* one run of the bridge: main with enable_adapter_bridge, disable_adapter_bridge,
\* list_adapters_bridge or load_adapter_info_from_registry; raised tells
\* whether creating the services raised, which every wrapper catches
BridgeMain ==
    /\ pc = "idle"
    /\ \E command \in {"enable", "disable", "list", "test"}, adapter_id \in CallerIds,
          raised \in BOOLEAN :
          /\ IF raised
             THEN /\ op' = [Outcome(command, adapter_id, "none", FALSE, NoModel)
                                EXCEPT !.error = "bridge_error"]
                  /\ UNCHANGED <<registry, weights, served, activated>>
             ELSE CASE command = "enable" -> AdapterManager_enable_adapter(adapter_id)
                    [] command = "disable" -> AdapterManager_disable_adapter(adapter_id)
                    [] command = "list" ->
                          /\ op' = Outcome("list", <<>>, "none", TRUE, NoModel)
                          /\ UNCHANGED <<registry, weights, served, activated>>
                    [] command = "test" ->
                          /\ op' = Outcome("test", adapter_id, "none",
                                           adapter_found(registry, adapter_id), NoModel)
                          /\ UNCHANGED <<registry, weights, served, activated>>
          /\ call' = [fn |-> "main", command |-> command, adapter_id |-> adapter_id,
                      exit_code |-> exit_status(op'.success)]
    /\ UNCHANGED <<pipeVars, deploy, plan>>

BridgeSpec == AdapterInit /\ [][Register \/ DeployFinalModel \/ BridgeMain]_vars

----------------------------------------------------------------------------
(* One call of a pure helper, made on its own *)

MaxNameLen == 4

\* names given to sanitize_model_name: a lowercase letter, an uppercase letter,
\* an accented letter, a digit, both separators and a symbol, in every order
Names == SeqsUpTo({"a", "B", "e^", "1", "_", "-", " "}, MaxNameLen)

SanitizeModelName ==
    /\ call = NoCall
    /\ \E name \in Names :
          call' = [fn |-> "sanitize_model_name", name |-> name,
                   sanitized |-> sanitize_model_name(name)]
    /\ UNCHANGED <<pipeVars, storeVars, deploy, plan>>

\* calculate_smart_hyperparameters for one configuration and dataset size;
\* an effective batch size of zero raises in "num_examples // effective_batch_size"
MaxNumExamples == 120

CalculateSmartHyperparameters ==
    /\ call = NoCall
    /\ \E cfg \in [batch_size : {1, 2}, gradient_accumulation_steps : {0, 1, 4}],
          num_examples \in 0..MaxNumExamples :
          call' = IF cfg.batch_size * cfg.gradient_accumulation_steps = 0
                  THEN [fn |-> "calculate_smart_hyperparameters", config |-> cfg,
                        num_examples |-> num_examples, raised |-> "ZeroDivisionError"]
                  ELSE [fn |-> "calculate_smart_hyperparameters", config |-> cfg,
                        num_examples |-> num_examples, raised |-> "none",
                        params |-> calculate_smart_hyperparameters(cfg, num_examples)]
    /\ UNCHANGED <<pipeVars, storeVars, deploy, plan>>

\* ProgressInfo.create(current_step, total_steps, ...): percentage in tenths
\* of a percent
MaxTotalSteps == 10

CreateProgressInfo ==
    /\ call = NoCall
    /\ \E current_step \in (0 - 3)..(MaxTotalSteps + 2), total_steps \in (0 - 2)..MaxTotalSteps :
          call' = [fn |-> "ProgressInfo.create", current_step |-> current_step,
                   total_steps |-> total_steps,
                   percentage |-> ProgressPercentage(10 * current_step, total_steps)]
    /\ UNCHANGED <<pipeVars, storeVars, deploy, plan>>

\* check_memory_status on one memory sample <<system percent, accelerator percent>>
CheckMemoryStatus ==
    /\ call = NoCall
    /\ \E sample \in {0, 50, 84, 85, 94, 95, 96, 100} \X {0, 89, 90, 95} :
          call' = [fn |-> "check_memory_status", sample |-> sample,
                   status |-> check_memory_status(sample)]
    /\ UNCHANGED <<pipeVars, storeVars, deploy, plan>>

\* ProgressCallback.on_step_end at global step global_step of max_steps
MaxSteps == 20

OnStepEnd ==
    /\ call = NoCall
    /\ \E max_steps \in 1..MaxSteps :
          \E global_step \in 1..max_steps :
             call' = [fn |-> "on_step_end", global_step |-> global_step,
                      max_steps |-> max_steps,
                      current_progress |-> step_progress(global_step, max_steps),
                      phase |-> step_phase(global_step, max_steps)]
    /\ UNCHANGED <<pipeVars, storeVars, deploy, plan>>

\* HardwareDetector._get_mps_config: both branches return the same settings
get_mps_config(hardware_info, model_name) ==
    LET model_name_lower == Lower(model_name)
        gemma == <<"g", "e", "m", "m", "a">>
    IN  IF Contains(model_name_lower, gemma) /\ hardware_info.mps_available
        THEN [device_type |-> "mps", torch_dtype |-> "float16", use_fp16_trainer |-> FALSE,
              load_in_8bit |-> FALSE, gradient_checkpointing |-> TRUE,
              dataloader_num_workers |-> 0]
        ELSE [device_type |-> "mps", torch_dtype |-> "float16", use_fp16_trainer |-> FALSE,
              load_in_8bit |-> FALSE, gradient_checkpointing |-> TRUE,
              dataloader_num_workers |-> 0]

\* HardwareDetector.get_optimal_config with _get_cuda_config and _get_cpu_config
get_optimal_config(hardware_info, model_name) ==
    IF hardware_info.mps_available /\ hardware_info.platform = "Darwin"
    THEN get_mps_config(hardware_info, model_name)
    ELSE IF hardware_info.cuda_available
    THEN [device_type |-> "cuda", torch_dtype |-> "float16", use_fp16_trainer |-> TRUE,
          load_in_8bit |-> ~(hardware_info.cuda_memory_gb > 8),
          gradient_checkpointing |-> TRUE, dataloader_num_workers |-> 4]
    ELSE [device_type |-> "cpu", torch_dtype |-> "float32", use_fp16_trainer |-> FALSE,
          load_in_8bit |-> FALSE, gradient_checkpointing |-> TRUE,
          dataloader_num_workers |-> Min(4, hardware_info.cpu_count)]

\* the machines _detect_hardware can report: Apple Silicon, an NVIDIA GPU
\* with 8 or 24 GB, and no accelerator
GetOptimalConfig ==
    /\ call = NoCall
    /\ \E hardware_info \in
             [platform : {"Darwin"}, mps_available : BOOLEAN, cuda_available : {FALSE},
              cuda_memory_gb : {0}, cpu_count : {2, 8}]
             \cup [platform : {"Linux"}, mps_available : {FALSE}, cuda_available : {TRUE},
                   cuda_memory_gb : {8, 24}, cpu_count : {2, 8}]
             \cup [platform : {"Linux"}, mps_available : {FALSE}, cuda_available : {FALSE},
                   cuda_memory_gb : {0}, cpu_count : {2, 8}],
          model_name \in {hf_gemma3, hf_gemma3n, hf_phi, <<"G", "e", "m", "m", "a">>, <<>>} :
          call' = [fn |-> "get_optimal_config", hardware_info |-> hardware_info,
                   model_name |-> model_name,
                   config |-> get_optimal_config(hardware_info, model_name)]
    /\ UNCHANGED <<pipeVars, storeVars, deploy, plan>>

\* merge_lora: adapters are dictionaries from parameter names to tensors, of
\* which the shape is kept; a merged parameter records how it was computed
common_params(adapters_weights) ==
    {n \in DOMAIN adapters_weights[1] :
        \A i \in 1..Len(adapters_weights) : n \in DOMAIN adapters_weights[i]}

compatible(adapters_weights, param_name) ==
    \A i \in 1..Len(adapters_weights) :
        adapters_weights[i][param_name] = adapters_weights[1][param_name]

\* arithmetic_mean_merge
arithmetic_mean_merge(adapters_weights) ==
    LET merged == {n \in common_params(adapters_weights) : compatible(adapters_weights, n)}
    IN  [n \in merged |-> [shape |-> adapters_weights[1][n], method |-> "mean"]]

svd_without_fallback(adapters_weights, svd) ==
    LET merged == {n \in common_params(adapters_weights) :
                      compatible(adapters_weights, n) /\ svd[n] = "ok"}
    IN  [n \in merged |-> [shape |-> adapters_weights[1][n], method |-> "svd"]]

\* svd_merge; svd[n] tells how torch.linalg.svd fares on parameter n: "ok",
\* "ill_conditioned" (S[0] <= 1e-10) or "error" (LinAlgError, RuntimeError)
svd_merge(adapters_weights, svd) ==
    LET merged == {n \in common_params(adapters_weights) : compatible(adapters_weights, n)}
    IN  [n \in merged |->
            [shape |-> adapters_weights[1][n],
             method |-> IF Len(adapters_weights[1][n]) = 2 /\ svd[n] = "ok"
                        THEN "svd" ELSE "mean"]]

\* merge_lora.main up to the merge: one or two adapters over two parameter
\* names, with matrix and vector shapes
MergeAdapters ==
    /\ call = NoCall
    /\ \E strategy \in {"arithmetic_mean", "svd_merge"},
          adapters_weights \in
              LET ParamNames == {"lora_A", "lora_B"}
                  Shapes == {<<2, 2>>, <<2, 3>>, <<2>>}
                  Adapters == UNION {[names -> Shapes] : names \in SUBSET ParamNames}
              IN  {<<a>> : a \in Adapters} \cup (Adapters \X Adapters),
          svd \in [{"lora_A", "lora_B"} -> {"ok", "ill_conditioned", "error"}] :
          /\ strategy = "arithmetic_mean" => svd = [n \in {"lora_A", "lora_B"} |-> "ok"]
          /\ call' = [fn |-> "merge_lora", strategy |-> strategy,
                      adapters_weights |-> adapters_weights,
                      merged_weights |->
                          IF strategy = "svd_merge" THEN svd_merge(adapters_weights, svd)
                          ELSE arithmetic_mean_merge(adapters_weights)]
    /\ UNCHANGED <<pipeVars, storeVars, deploy, plan>>

HelperNext ==
    \/ SanitizeModelName
    \/ CalculateSmartHyperparameters
    \/ CreateProgressInfo
    \/ CheckMemoryStatus
    \/ OnStepEnd
    \/ GetOptimalConfig
    \/ MergeAdapters

HelperSpec == AdapterInit /\ [][HelperNext]_vars

----------------------------------------------------------------------------
(* Claims about enabling and disabling adapters *)

EnableOps == {"enable", "real_enable"}
DisableOps == {"disable", "real_disable"}

\* the registry file an id resolves to, as stored
StoredKey(adapter_id) ==
    IF adapter_id \in DOMAIN registry THEN adapter_id ELSE sanitize_model_name(adapter_id)

\* the record's identifier or base-model tag matches the known lists
RestrictedByList(rec) ==
    \/ \E indicator \in unsloth_indicators : Contains(rec.hf_model, indicator)
    \/ \E pattern \in unsloth_base_patterns : Contains(rec.base_model, pattern)

C7_ArchitectureErrorFallsBackToMerge ==
    (op.attaches = 1 /\ op.attach_error = "unsupported architecture")
        => op.merges = 1

C9_EnablePersisted ==
    (op.name \in EnableOps /\ op.success)
        => /\ adapter_found(registry, op.adapter_id)
           /\ registry[StoredKey(op.adapter_id)].enabled
           /\ registry[StoredKey(op.adapter_id)].active_model = op.active_model

\* C10: after a successful disable the model the last successful enable
\* activated for that adapter is no longer served.
C10_DisableRemovesServedModel ==
    (op.name \in DisableOps /\ op.success /\ StoredKey(op.adapter_id) \in DOMAIN activated)
        => activated[StoredKey(op.adapter_id)] \notin served

----------------------------------------------------------------------------
(* Claims about the durability of records and the idempotence of disable *)

\* the id is one the manager that ran the operation resolves to a record
Resolves(name, adapter_id) ==
    IF name \in {"real_enable", "real_disable"}
    THEN adapter_id \in DOMAIN registry
    ELSE adapter_found(registry, adapter_id)

\* C11: no enable or disable operation deletes a registry record or the
\* adapter weights it points to: every record present before the operation
\* is present after it with the same identity and weights path, and the
\* weights are still stored.
C11_EnableDisableKeepFiles ==
    [][op'.name \in EnableOps \cup DisableOps =>
          /\ weights \subseteq weights'
          /\ DOMAIN registry \subseteq DOMAIN registry'
          /\ \A k \in DOMAIN registry :
                /\ registry'[k].adapter_id = registry[k].adapter_id
                /\ registry'[k].adapter_path = registry[k].adapter_path
                /\ registry'[k].adapter_id \in weights']_vars

\* an adapter that was enabled and then disabled still has record and weights
C11_Witness ==
    /\ op.name \in DisableOps
    /\ op.success
    /\ StoredKey(op.adapter_id) \in DOMAIN activated
    /\ StoredKey(op.adapter_id) \in DOMAIN registry
    /\ registry[StoredKey(op.adapter_id)].adapter_id \in weights

----------------------------------------------------------------------------
(* Claims about the registry round trip *)

\* C13: right after register(x, ...) succeeded, get_adapter_info(x) with the
\* id as the caller gave it returns a record whose adapter_id is
\* sanitize_model_name(x), whatever other records the registry holds.
C13_RegisterThenGetInfo ==
    (op.name = "register" /\ op.success)
        => /\ adapter_found(registry, op.adapter_id)
           /\ get_adapter_info(registry, op.adapter_id).adapter_id
                 = sanitize_model_name(op.adapter_id)

----------------------------------------------------------------------------
(* The deployment retry loop as a specification, and its claims *)

DeployNext ==
    \/ DeployToOllama
    \/ DeployAttempt

\* every subprocess call returns, so a started pass of the loop ends
DeploySpec == AdapterInit /\ [][DeployNext]_vars /\ WF_vars(DeployNext)

\* C14: one deployment calls "ollama create" at most max_retries times, it
\* terminates, it reports success only for a verified model, and once the
\* attempts are used up without one it returns failure.
C14_BoundedRetries ==
    /\ [](/\ deploy.creates <= deploy.max_retries
          /\ deploy.attempt < deploy.max_retries \/ deploy.max_retries = 0
          /\ (deploy.pc = "done" => deploy.result = deploy.verified))
    /\ (deploy.pc = "attempt" ~> deploy.pc = "done")

\* all max_retries passes reached "ollama create" and none was verified
C14_Witness ==
    /\ deploy.pc = "done"
    /\ deploy.max_retries = MaxRetries
    /\ deploy.creates = deploy.max_retries
    /\ ~deploy.result

\* C15: the loop goes round again only after the file-sync failure ("no
\* Modelfile or safetensors files found"); after any other failure it stops.
C15_RetryOnlyOnSyncError == deploy.retried \subseteq {"sync_error"}

----------------------------------------------------------------------------
(* Claims about the progress channel *)

\* the percentage band reserved for a phase, in tenths of a percent
InBand(phase, pct) ==
    CASE phase = "validate" -> 0 <= pct /\ pct <= 20
      [] phase = "data" -> 20 <= pct /\ pct <= 150
      [] phase = "map" -> 150 <= pct /\ pct <= 180
      [] phase = "base" -> 180 <= pct /\ pct <= 200
      [] phase = "train" -> 200 <= pct /\ pct <= 900
      [] phase = "deploy" -> 900 <= pct /\ pct <= 980
      [] phase = "register" -> 980 <= pct /\ pct <= 1000
      [] OTHER -> FALSE

\* C16: every progress event a step of the run emits carries a percentage
\* inside the band of the phase that step belongs to.
C16_ProgressInPhaseBand ==
    [][\A i \in (Len(channel) + 1)..Len(channel') :
          channel'[i].kind = "PROGRESS" => InBand(PhaseOf(pc), channel'[i].pct)]_vars

\* C17: an ERROR line is terminal on the channel: no PROGRESS line follows
\* an ERROR line, and a run that emitted an ERROR line has not emitted the
\* completion line PROGRESS:100.0.
C17_ErrorIsTerminal ==
    /\ \A i, j \in 1..Len(channel) :
          (i < j /\ channel[i].kind = "ERROR") => channel[j].kind # "PROGRESS"
    /\ ErrorCount(channel) > 0
          => \A i \in 1..Len(channel) :
                ~(channel[i].kind = "PROGRESS" /\ channel[i].pct = 1000)

\* a run that failed during training, after progress had been reported
C17_Witness ==
    /\ Failed
    /\ started[Len(started)] = "train"
    /\ Len(channel) >= 2
    /\ channel[1].kind = "PROGRESS"
    /\ channel[Len(channel)].kind = "ERROR"

----------------------------------------------------------------------------
(* Claims about the trainer *)

\* C18: when train() does not return the path of the saved adapter, it has
\* reported an error on the channel and returned None: no exception leaves
\* train() and no adapter path is returned for an aborted run.
C18_TrainReportsAndReturnsNone ==
    (Failed /\ started[Len(started)] = "train")
        => /\ failKind = "returned"
           /\ adapterPath = NoPath
           /\ ErrorCount(channel) >= 1

----------------------------------------------------------------------------
(* The step calculator as a specification, and its claims *)

PlanSpec == AdapterInit /\ [][CalculateOptimalSteps]_vars

\* the minimum that applies to n: lower for incremental runs, else by size
TierMinimum(n, is_incremental) ==
    IF is_incremental THEN 100
    ELSE IF n <= 10 THEN 400 ELSE IF n <= 50 THEN 500 ELSE 800

\* the maximum that applies to n: the steps-per-example ceiling, capped
TierMaximum(n) ==
    Min(5000, IF n <= 5 THEN 1000 ELSE IF n <= 20 THEN 50 * n ELSE 25 * n)

\* C19: the planned steps are at least the minimum and at most the maximum
\* that apply to the dataset size.
C19_StepsWithinTierBounds ==
    plan # NoPlan
        => /\ plan.steps >= TierMinimum(plan.inputs.dataset_size, plan.inputs.is_incremental)
           /\ plan.steps <= TierMaximum(plan.inputs.dataset_size)

\* a size tier is a range of dataset sizes on which the base steps, the
\* minimum and the steps-per-example ceiling are given by the same branches
TierThresholds == {5, 10, 15, 20, 25, 50, 100, 200}

SizeTier(n) == Cardinality({b \in TierThresholds : n > b})

C21_ThreeExamplesAtMost200 ==
    (plan # NoPlan /\ plan.inputs.dataset_size = 3) => plan.steps <= 200

\* C22: a dataset of 1,000 examples is planned with at most 2,500 steps,
\* whatever the rank, learning rate, complexity and incremental flag.
C22_ThousandExamplesAtMost2500 ==
    (plan # NoPlan /\ plan.inputs.dataset_size = 1000) => plan.steps <= 2500

----------------------------------------------------------------------------
(* Claims about utils.sanitize_model_name *)

Sanitized == call.fn = "sanitize_model_name"

\* C23: sanitizing is idempotent: for every adapter id (empty, accented,
\* all-symbol and digit-leading ids included) sanitizing the sanitized id
\* gives the sanitized id again.
C23_SanitizeIdempotent ==
    Sanitized => sanitize_model_name(call.sanitized) = call.sanitized

\* a digit-leading id with an accented letter and a symbol, which sanitizing changed
C23_Witness ==
    /\ Sanitized
    /\ call.name = <<"1", "e^", " ", "B">>
    /\ call.sanitized # call.name
    /\ sanitize_model_name(call.sanitized) = call.sanitized

\* C24: the sanitized id is never empty, has no uppercase letter, has no
\* character outside a-z, 0-9, underscore and hyphen, and does not start
\* with a digit.
C24_SanitizedWellFormed ==
    Sanitized =>
        /\ call.sanitized # <<>>
        /\ Range(call.sanitized) \cap Range(UpperChars) = {}
        /\ Range(call.sanitized) \subseteq
               (Range(LowerChars) \ {"e^"}) \cup Digits \cup {"_", "-"}
        /\ call.sanitized[1] \notin Digits

\* an id made of symbols and separators only, which sanitizes to the placeholder
C24_Witness ==
    /\ Sanitized
    /\ call.name = <<" ", "-", "_", " ">>
    /\ call.sanitized = unnamed

Separators == {"-", "_"}

ConsecutiveSeparators(s) ==
    \E i \in 1..(Len(s) - 1) : s[i] \in Separators /\ s[i + 1] \in Separators

\* C25: the sanitized id under which register_adapter stores the record has
\* no two consecutive separator characters (hyphen or underscore).
C25_NoConsecutiveSeparators ==
    Sanitized => ~ConsecutiveSeparators(call.sanitized)

\* an id with two underscores in a row keeps them
C25_DoubleUnderscoreKept ==
    /\ Sanitized
    /\ call.name = <<"a", "_", "_", "a">>
    /\ call.sanitized = call.name

----------------------------------------------------------------------------
(* Claims about the training configuration, progress events, memory
   classification and the hardware profile *)

\* C26: every training configuration the optimisation loop is started with
\* has a positive step count and warmup, save and logging steps that do not
\* exceed the step count, whatever the dataset size and user configuration.
C26_StartedConfigConsistent ==
    (call.fn = "calculate_smart_hyperparameters" /\ call.raised = "none") =>
        /\ call.params.max_steps > 0
        /\ call.params.warmup_steps <= call.params.max_steps
        /\ call.params.save_steps <= call.params.max_steps
        /\ call.params.logging_steps <= call.params.max_steps

\* a single example: one step, of which warmup, save and logging take one each
C26_Witness ==
    /\ call.fn = "calculate_smart_hyperparameters"
    /\ call.raised = "none"
    /\ call.num_examples = 1
    /\ call.params = [max_steps |-> 1, warmup_steps |-> 1, save_steps |-> 1,
                      logging_steps |-> 1]

\* C27: the percentage of a progress event lies in [0, 100] whatever current
\* step and total steps it is created from (current > total, current < 0 and
\* total <= 0 included).  Percentages are in tenths of a percent.
C27_PercentageInRange ==
    call.fn = "ProgressInfo.create" => (0 <= call.percentage /\ call.percentage <= 1000)

\* C28: a snapshot whose system-memory percent is at or above the critical
\* threshold is classified critical and in need of cleanup.
C28_CriticalSnapshot ==
    (call.fn = "check_memory_status" /\ call.sample[1] >= critical_threshold) =>
        (call.status.critical /\ call.status.should_cleanup)

\* the snapshot with system memory at 96 percent and no accelerator
C28_Witness ==
    /\ call.fn = "check_memory_status"
    /\ call.sample = <<96, 0>>
    /\ call.status = [should_cleanup |-> TRUE, critical |-> TRUE]

\* C29: the progress event of step s of N carries the phase "warmup" in the
\* first 10% of the steps, "fine-tuning" (tag fine_tuning) in the last 10%
\* and "main" (tag main_training) in between.
C29_PhaseByTenths ==
    call.fn = "on_step_end" =>
        call.phase = IF 10 * call.global_step <= call.max_steps THEN "warmup"
                     ELSE IF 10 * call.global_step > 9 * call.max_steps THEN "fine_tuning"
                     ELSE "main_training"

\* C30: on a unified-memory GPU the profile returned for a model of the
\* family singled out for gradient-checkpointing trouble (gemma) has
\* gradient checkpointing disabled.
C30_UnifiedMemoryDisablesCheckpointing ==
    (/\ call.fn = "get_optimal_config"
     /\ call.config.device_type = "mps"
     /\ Contains(Lower(call.model_name), <<"g", "e", "m", "m", "a">>)) =>
        ~call.config.gradient_checkpointing

----------------------------------------------------------------------------
(* Claims about the command line, the merge tool and whole runs *)

\* C31: each subcommand (enable, disable, list, test) ends the process with
\* exit code 0 exactly when its operation succeeded and with 1 when it failed.
\* op.name = call.command holds in the state a run of the command line left.
C31_ExitCodeTellsSuccess ==
    (call.fn = "main" /\ op.name = call.command) =>
        /\ call.exit_code \in {0, 1}
        /\ call.exit_code = 0 <=> op.success
        /\ (call.command = "enable" /\ call.exit_code = 0) => op.active_model \in served
        /\ (call.command = "test" /\ call.exit_code = 0) =>
               adapter_found(registry, call.adapter_id)

\* an enable that created the served model exits with 0
C31_Witness ==
    /\ call.fn = "main"
    /\ call.command = "enable"
    /\ op.name = "enable"
    /\ op.attaches = 1
    /\ op.active_model \in served
    /\ call.exit_code = 0

\* the parameters every adapter has, split by whether their shapes agree
Mismatched ==
    {n \in common_params(call.adapters_weights) : ~compatible(call.adapters_weights, n)}

\* C32: an SVD merge skips a parameter whose shapes differ across the
\* adapters (it is absent from the result) without aborting, and still
\* returns a merged weight for every parameter present in all adapters with
\* identical shape.
C32_SvdMergeSkipsMismatch ==
    (call.fn = "merge_lora" /\ call.strategy = "svd_merge") =>
        DOMAIN call.merged_weights = common_params(call.adapters_weights) \ Mismatched

\* two adapters that disagree on the shape of lora_A and agree on lora_B
C32_Witness ==
    /\ call.fn = "merge_lora"
    /\ call.strategy = "svd_merge"
    /\ Mismatched = {"lora_A"}
    /\ DOMAIN call.merged_weights = {"lora_B"}

\* C33: a parameter whose shapes mismatch is still produced in the merged
\* output, by straight averaging, instead of aborting the merge.
C33_MismatchAveraged ==
    call.fn = "merge_lora" =>
        \A n \in Mismatched :
            n \in DOMAIN call.merged_weights /\ call.merged_weights[n].method = "mean"

\* C34: across a run, cleanup is aggressive only at a checkpoint whose
\* classification was critical (reason "checkpoint": monitor_training_phase
\* passes aggressive = critical) or in failure recovery (reason "recovery");
\* every other cleanup, on the success path too, is non-aggressive.
C34_AggressiveOnlyCriticalOrRecovery ==
    \A c \in cleanups : c.aggressive => c.reason \in {"checkpoint", "recovery"}

\* C35: a configuration error (missing required field, nonexistent data
\* file, non-positive step count) is detected before any external call: a
\* run that failed validation for such a reason has invoked no serving-runtime
\* command, training-library run or other subprocess.
C35_ConfigErrorBeforeExternalCalls ==
    (pc = "done" /\ config_error(config)) =>
        /\ failKind = "returned"
        /\ started = <<"validate">>
        /\ ErrorCount(channel) = 1
        /\ external = <<>>

\* a run over a configuration whose data file does not exist
C35_Witness ==
    /\ pc = "done"
    /\ config.data_file.kind = "missing"
    /\ failKind = "returned"
    /\ external = <<>>

\* C36: conversion of the merged model is not retried: within one
\* merge/convert/deploy phase the converter is invoked at most once.
C36_ConverterAtMostOnce ==
    Cardinality({i \in 1..Len(external) : external[i] = "convert"}) <= 1

\* C37: within one run the percentages of successive PROGRESS lines never
\* decrease, for restricted-architecture and for standard base models.
C37_ProgressMonotone ==
    \A i, j \in 1..Len(channel) :
        (i < j /\ channel[i].kind = "PROGRESS" /\ channel[j].kind = "PROGRESS")
            => channel[i].pct <= channel[j].pct

\* C38: an enable that fails at any step (merge, conversion, definition file,
\* creation of the served model) leaves the persisted enabled flags as they
\* were: no record becomes enabled in a step whose enable reported failure.
C38_FailedEnableKeepsFlag ==
    [][(op'.name \in {"enable", "real_enable", "enable_lora"} /\ ~op'.success) =>
          \A k \in DOMAIN registry' :
              registry'[k].enabled => (k \in DOMAIN registry /\ registry[k].enabled)]_vars


\* C39: when enable_adapter, called with the id of the record a successful
\* run registered, takes the final-model path, the name "<adapter_id>-final" it
\* looks up is the name under which the run deployed its merged model
C39_EnableLooksUpDeployedModel ==
    (pc = "done" /\ op.name = "enable" /\ op.strategy = "unsloth_final_model")
        => (op.adapter_id \o final_suffix = finalModel /\ finalModel \in served)


\* C40: after successful register_adapter calls every id that was registered
\* is still found by get_adapter_info, which gives the record registered
\* under that id, and its weights are stored
C40_RegisterKeepsOtherAdapters ==
    call.fn = "register_adapter" =>
        \A adapter_id \in DOMAIN call.returned :
            /\ adapter_found(registry, adapter_id)
            /\ get_adapter_info(registry, adapter_id) = from_dict(call.returned[adapter_id])
            /\ call.returned[adapter_id].adapter_id \in weights

====
